---- MODULE Spec2Model ----
(***************************************************************************)
(* Model of the in-memory free-polyomino enumerator (src/src/main.rs).     *)
(*                                                                         *)
(* A Coord is a pair <<x, y>>, a Polyomino is a sequence of Coords (the    *)
(* Vec<Coord> of the source, order and duplicates kept), and the derived   *)
(* orderings of the source (Coord: x then y; Polyomino: lexicographic on   *)
(* the cell sequence, a proper prefix being smaller) are CoordLess and     *)
(* PolyLess.  Coord components are i32 in the source; every shape the      *)
(* program builds from up_to <= MaxUpTo has components in -1 .. MaxUpTo,   *)
(* so no i32 operation wraps and plain integers are used for them.         *)
(* up_to and n are usize; the one usize operation that can overflow,       *)
(* up_to + 1, is modelled with its width (see UsizeMax, Start and          *)
(* OverflowPanic).                                                         *)
(***************************************************************************)
EXTENDS Integers, Sequences, FiniteSets, TLC

VARIABLES
    up_to,      \* the parsed command-line argument (usize, see UsizeMax)
    pc,         \* position of main: "start", "grow", "open", "head", "entries",
                \* "tail", "flush", "next", "done" (main returned), "overflow" (the
                \* panic of up_to + 1) or "panicked" (the panic of an unwrap of save)
    rend,       \* the exclusive end of the range 2..(up_to + 1), computed once
    n,          \* loop variable of `for n in 2..(up_to + 1)` (2 before the loop starts)
    previous,   \* Vec<Polyomino>
    current,    \* BTreeMap<Polyomino, PolyominoSymmetryGroup>: its entries in key order
    pidx,       \* index into previous of the polyomino being grown
    files,      \* the working directory: size k -> state of the file <k>.json
    stream,     \* everything written to the BufWriter of the open file so far (chunks)
    widx,       \* number of map entries already written to the BufWriter
    saved,      \* sizes for which save() has returned, in order
    formed,     \* largest size of which a candidate has been formed so far
    files0,     \* the working directory as it was when the program started
    complete,   \* size k -> all that save(k, ..) had to write, once save(k, ..) returned
    S,          \* input shape of the canonicalization harness
    fpc,        \* position of the canonicalization harness
    fixedOut,   \* canonize_fixed(S)
    freeOut,    \* canonize_free(S)
    freeRot,    \* canonize_free(rotate-image of S)
    freeTr,     \* canonize_free(transpose-image of S)
    chain       \* the eight images c0 .. t270 as canonize_free computes them

progVars == <<up_to, pc, rend, n, previous, current, pidx, files, stream, widx, saved, formed,
             files0, complete>>
fnVars == <<S, fpc, fixedOut, freeOut, freeRot, freeTr, chain>>
vars == <<up_to, pc, rend, n, previous, current, pidx, files, stream, widx, saved, formed,
          files0, complete,
          S, fpc, fixedOut, freeOut, freeRot, freeTr, chain>>

(***************************************************************************)
(* Bounds of the model.                                                    *)
(***************************************************************************)
MaxUpTo == 6        \* largest ordinary argument up_to that is run
MaxShapeN == 4      \* largest size whose generation is compared with all connected shapes
GridSide == 3       \* harness shapes take their cells from a GridSide x GridSide grid
MaxCells == 3       \* harness shapes have at most MaxCells cells

(***************************************************************************)
(* Coord                                                                   *)
(***************************************************************************)
CoordLess(a, b) == a[1] < b[1] \/ (a[1] = b[1] /\ a[2] < b[2])

Coord_rotate(c) == <<-c[2], c[1]>>

Coord_transpose(c) == <<c[2], c[1]>>

(***************************************************************************)
(* Polyomino                                                               *)
(***************************************************************************)
RECURSIVE PolyLessFrom(_, _, _)
PolyLessFrom(a, b, i) ==
    IF i > Len(a) THEN i <= Len(b)
    ELSE IF i > Len(b) THEN FALSE
    ELSE IF CoordLess(a[i], b[i]) THEN TRUE
    ELSE IF CoordLess(b[i], a[i]) THEN FALSE
    ELSE PolyLessFrom(a, b, i + 1)

PolyLess(a, b) == PolyLessFrom(a, b, 1)

\* slice::sort on Vec<Coord>: ascending by CoordLess, equal elements kept
RECURSIVE InsertCoord(_, _)
InsertCoord(c, s) ==
    IF s = <<>> THEN <<c>>
    ELSE IF CoordLess(c, Head(s)) THEN <<c>> \o s
    ELSE <<Head(s)>> \o InsertCoord(c, Tail(s))

RECURSIVE SortCoords(_)
SortCoords(s) == IF s = <<>> THEN <<>> ELSE InsertCoord(Head(s), SortCoords(Tail(s)))

\* slice::sort on Vec<Polyomino>
RECURSIVE InsertPoly(_, _)
InsertPoly(p, s) ==
    IF s = <<>> THEN <<p>>
    ELSE IF PolyLess(p, Head(s)) THEN <<p>> \o s
    ELSE <<Head(s)>> \o InsertPoly(p, Tail(s))

RECURSIVE SortPolys(_)
SortPolys(s) == IF s = <<>> THEN <<>> ELSE InsertPoly(Head(s), SortPolys(Tail(s)))

MinOf(vals) == CHOOSE m \in vals : \A v \in vals : m <= v

\* canonize_fixed without the sort
canonize_fixed_Unsorted(p) ==
    LET min_x == IF p = <<>> THEN 0 ELSE MinOf({p[i][1] : i \in DOMAIN p})
        min_y == IF p = <<>> THEN 0 ELSE MinOf({p[i][2] : i \in DOMAIN p})
    IN  [i \in DOMAIN p |-> <<p[i][1] - min_x, p[i][2] - min_y>>]

canonize_fixed(p) ==
    LET min_x == IF p = <<>> THEN 0 ELSE MinOf({p[i][1] : i \in DOMAIN p})
        min_y == IF p = <<>> THEN 0 ELSE MinOf({p[i][2] : i \in DOMAIN p})
        normalized_coords == [i \in DOMAIN p |-> <<p[i][1] - min_x, p[i][2] - min_y>>]
    IN  SortCoords(normalized_coords)

Polyomino_rotate(p) == canonize_fixed([i \in DOMAIN p |-> Coord_rotate(p[i])])

Polyomino_transpose(p) == canonize_fixed([i \in DOMAIN p |-> Coord_transpose(p[i])])

\* Images with c180 rotated from self instead of from c90
Images_HalfTurnFromSelf(p) ==
    LET c0 == canonize_fixed(p)
        c90 == canonize_fixed(Polyomino_rotate(p))
        c180 == canonize_fixed(Polyomino_rotate(p))
        c270 == canonize_fixed(Polyomino_rotate(c180))
        t0 == canonize_fixed(Polyomino_transpose(p))
        t90 == canonize_fixed(Polyomino_rotate(t0))
        t180 == canonize_fixed(Polyomino_rotate(t90))
        t270 == canonize_fixed(Polyomino_rotate(t180))
    IN  <<c0, c90, c180, c270, t0, t90, t180, t270>>

\* the eight images, in the order of the `all` vector
Images(p) ==
    LET c0 == canonize_fixed(p)
        c90 == canonize_fixed(Polyomino_rotate(p))
        c180 == canonize_fixed(Polyomino_rotate(c90))
        c270 == canonize_fixed(Polyomino_rotate(c180))
        t0 == canonize_fixed(Polyomino_transpose(p))
        t90 == canonize_fixed(Polyomino_rotate(t0))
        t180 == canonize_fixed(Polyomino_rotate(t90))
        t270 == canonize_fixed(Polyomino_rotate(t180))
    IN  <<c0, c90, c180, c270, t0, t90, t180, t270>>

\* symmetry_group that looks for one diagonal mirror only (c0 = t0)
symmetry_group_OneDiagonal(im) ==
    LET c0 == im[1]  c90 == im[2]  c180 == im[3]
        t0 == im[5]  t90 == im[6]  t270 == im[8]
    IN  IF c0 = c90 THEN (IF c0 = t0 THEN "All" ELSE "Rotation4Fold")
        ELSE IF c0 = t0
             THEN (IF c0 = c180 THEN "Rotation2FoldMirror45" ELSE "Mirror45")
        ELSE IF c0 = t90 \/ c0 = t270
             THEN (IF c0 = c180 THEN "Rotation2FoldMirror90" ELSE "Mirror90")
        ELSE IF c0 = c180 THEN "Rotation2Fold"
        ELSE "None"

\* symmetry_group with the tests of the two kinds of mirror exchanged
symmetry_group_MirrorsSwapped(im) ==
    LET c0 == im[1]  c90 == im[2]  c180 == im[3]
        t0 == im[5]  t90 == im[6]  t180 == im[7]  t270 == im[8]
    IN  IF c0 = c90 THEN (IF c0 = t0 THEN "All" ELSE "Rotation4Fold")
        ELSE IF c0 = t90 \/ c0 = t270
             THEN (IF c0 = c180 THEN "Rotation2FoldMirror45" ELSE "Mirror45")
        ELSE IF c0 = t0 \/ c0 = t180
             THEN (IF c0 = c180 THEN "Rotation2FoldMirror90" ELSE "Mirror90")
        ELSE IF c0 = c180 THEN "Rotation2Fold"
        ELSE "None"

symmetry_group(im) ==
    LET c0 == im[1]  c90 == im[2]  c180 == im[3]
        t0 == im[5]  t90 == im[6]  t180 == im[7]  t270 == im[8]
    IN  IF c0 = c90 THEN (IF c0 = t0 THEN "All" ELSE "Rotation4Fold")
        ELSE IF c0 = t0 \/ c0 = t180
             THEN (IF c0 = c180 THEN "Rotation2FoldMirror45" ELSE "Mirror45")
        ELSE IF c0 = t90 \/ c0 = t270
             THEN (IF c0 = c180 THEN "Rotation2FoldMirror90" ELSE "Mirror90")
        ELSE IF c0 = c180 THEN "Rotation2Fold"
        ELSE "None"

\* canonize_free that returns c0 instead of the least image
canonize_free_FirstImage(p) ==
    LET im == Images(p)
    IN  [poly |-> im[1], sym |-> symmetry_group(im)]

canonize_free(p) ==
    LET im == Images(p)
    IN  [poly |-> Head(SortPolys(im)), sym |-> symmetry_group(im)]


(***************************************************************************)
(* main: the growth loop                                                   *)
(***************************************************************************)
\* usize values are represented modulo 2^64 by their signed representative:
\* 0 .. MaxUpTo stand for themselves and usize::MAX = 2^64 - 1 is 0 - 1, so
\* that the wrapping sum up_to + 1 of a release build is the plain sum.
UsizeMax == 0 - 1

Arguments == (0 .. MaxUpTo) \cup {UsizeMax}

\* sizes k whose file <k>.json the model keeps track of
FileSizes == 1 .. (MaxUpTo + 1)

NoFile == [exists |-> FALSE, data |-> <<>>]

StaleFile == [exists |-> TRUE, data |-> <<"stale">>]

\* v without the test for an occupied cell
v_NoOccupancyCheck(polyomino, new_coord) ==
    <<canonize_free(Append(polyomino, new_coord))>>

\* fn v: the candidate polyomino + new_coord, classified, or nothing when occupied
v(polyomino, new_coord) ==
    IF \E i \in DOMAIN polyomino : polyomino[i] = new_coord
    THEN <<>>
    ELSE <<canonize_free(Append(polyomino, new_coord))>>

\* the inner closure of main: the four neighbours of one cell, in source order
CellCandidates(polyomino, c) ==
    v(polyomino, <<c[1] + 1, c[2]>>) \o v(polyomino, <<c[1] - 1, c[2]>>)
        \o v(polyomino, <<c[1], c[2] + 1>>) \o v(polyomino, <<c[1], c[2] - 1>>)

\* CandidatesFrom that grows the first cell of the polyomino only
CandidatesFrom_FirstCellOnly(polyomino, i) ==
    IF i > 1 THEN <<>> ELSE CellCandidates(polyomino, polyomino[i])

\* the outer closure of main: every candidate grown from one polyomino
RECURSIVE CandidatesFrom(_, _)
CandidatesFrom(polyomino, i) ==
    IF i > Len(polyomino) THEN <<>>
    ELSE CellCandidates(polyomino, polyomino[i]) \o CandidatesFrom(polyomino, i + 1)

\* BTreeMap::insert on the entries in key order: a present key keeps its place
\* and takes the new value
RECURSIVE BTreeInsert(_, _)
BTreeInsert(map, e) ==
    IF map = <<>> THEN <<e>>
    ELSE IF PolyLess(e.poly, Head(map).poly) THEN <<e>> \o map
    ELSE IF e.poly = Head(map).poly THEN <<e>> \o Tail(map)
    ELSE <<Head(map)>> \o BTreeInsert(Tail(map), e)

\* collect::<BTreeMap<_, _>>() on a run of candidates
RECURSIVE Collect(_, _, _)
Collect(map, cands, i) ==
    IF i > Len(cands) THEN map ELSE Collect(BTreeInsert(map, cands[i]), cands, i + 1)

\* `2..(up_to + 1)` and the first test of the loop; for up_to = usize::MAX this
\* is the release build, in which the sum wraps to 0
Start ==
    /\ pc = "start"
    /\ rend' = up_to + 1
    /\ pc' = IF 2 < up_to + 1 THEN "grow" ELSE "done"
    /\ UNCHANGED <<up_to, n, previous, current, pidx, files, stream, widx, saved, formed>>
    /\ UNCHANGED <<files0, complete, fnVars>>

\* `up_to + 1` for up_to = usize::MAX in a debug build: the overflow panics
OverflowPanic ==
    /\ pc = "start"
    /\ up_to = UsizeMax
    /\ pc' = "overflow"
    /\ UNCHANGED <<up_to, rend, n, previous, current, pidx, files, stream, widx,
                   saved, formed>>
    /\ UNCHANGED <<files0, complete, fnVars>>

\* one polyomino of `previous` is grown and its candidates are inserted
GrowPolyomino ==
    /\ pc = "grow"
    /\ pidx <= Len(previous)
    /\ LET cands == CandidatesFrom(previous[pidx], 1)
       IN  /\ current' = Collect(current, cands, 1)
           /\ formed' = IF cands = <<>> THEN formed ELSE n
    /\ pidx' = pidx + 1
    /\ pc' = IF pidx = Len(previous) THEN "open" ELSE "grow"
    /\ UNCHANGED <<up_to, rend, n, previous, files, stream, widx, saved>>
    /\ UNCHANGED <<files0, complete, fnVars>>


(***************************************************************************)
(* save: the file <n>.json                                                 *)
(*                                                                         *)
(* The content of a file is the sequence of the chunks written to it, one  *)
(* chunk per write! of save.  The BufWriter holds the chunks written to it *)
(* and not yet to the file: `stream` is all that save has written, the     *)
(* file holds a prefix of it.  When a BufWriter passes its buffer on is    *)
(* decided by its capacity; the model allows it at every write.            *)
(***************************************************************************)
\* impl Display for Coord
CoordStr(c) == ToString(c[1]) \o "," \o ToString(c[2])

\* impl Display for Polyomino
RECURSIVE PolyStrFrom(_, _)
PolyStrFrom(p, i) ==
    IF i > Len(p) THEN ""
    ELSE (IF i # 1 THEN "," ELSE "") \o CoordStr(p[i]) \o PolyStrFrom(p, i + 1)

PolyStr(p) == PolyStrFrom(p, 1)

\* EntryChunk that separates the first entry too
EntryChunk_AlwaysComma(i, e) ==
    ",\n\t\"" \o PolyStr(e.poly) \o "\": \"" \o e.sym \o "\""

\* the write! of entry number i (from 0) of the map; {:?} prints the variant's name
EntryChunk(i, e) ==
    (IF i = 0 THEN "" ELSE ",") \o "\n\t\"" \o PolyStr(e.poly) \o "\": \"" \o e.sym \o "\""

HeadChunk == "{"

TailChunk == "\n}\n"

\* everything save writes for a map
FullContent(map) ==
    <<HeadChunk>> \o [i \in 1 .. Len(map) |-> EntryChunk(i - 1, map[i])] \o <<TailChunk>>

IsPrefix(a, b) == Len(a) <= Len(b) /\ \A i \in 1 .. Len(a) : a[i] = b[i]

\* the prefixes of `to` that extend `from`
Extensions(from, to) == {SubSeq(to, 1, k) : k \in Len(from) .. Len(to)}

\* SaveOpen that creates and truncates the file of the next size
SaveOpen_NextName ==
    /\ pc = "open"
    /\ files' = [files EXCEPT ![n + 1] = [exists |-> TRUE, data |-> <<>>]]
    /\ stream' = <<>>
    /\ widx' = 0
    /\ pc' = "head"
    /\ UNCHANGED <<up_to, rend, n, previous, current, pidx, saved, formed>>
    /\ UNCHANGED <<files0, complete, fnVars>>

\* OpenOptions::new().create(true).write(true).truncate(true).open(..)
SaveOpen ==
    /\ pc = "open"
    /\ files' = [files EXCEPT ![n] = [exists |-> TRUE, data |-> <<>>]]
    /\ stream' = <<>>
    /\ widx' = 0
    /\ pc' = "head"
    /\ UNCHANGED <<up_to, rend, n, previous, current, pidx, saved, formed>>
    /\ UNCHANGED <<files0, complete, fnVars>>

\* .open(..).unwrap() on an error: nothing was opened
SaveOpenFail ==
    /\ pc = "open"
    /\ pc' = "panicked"
    /\ UNCHANGED <<up_to, rend, n, previous, current, pidx, files, stream, widx, saved,
                   formed>>
    /\ UNCHANGED <<files0, complete, fnVars>>

\* write!(writer, ..) that succeeds: the chunk is buffered, after the buffer was
\* passed on to the file or not, or (a chunk as large as the buffer) goes to the file
WriteOk(chunk) ==
    /\ stream' = Append(stream, chunk)
    /\ \E data \in {files[n].data, stream, Append(stream, chunk)} :
           files' = [files EXCEPT ![n].data = data]

\* write!(writer, ..).unwrap() or writer.flush().unwrap() on an error: part of the
\* buffer may have reached the file, and the dropped BufWriter may pass on more
WriteFail ==
    /\ pc \in {"head", "entries", "tail", "flush"}
    /\ \E data \in Extensions(files[n].data, stream) :
           files' = [files EXCEPT ![n].data = data]
    /\ stream' = <<>>
    /\ widx' = 0
    /\ pc' = "panicked"
    /\ UNCHANGED <<up_to, rend, n, previous, current, pidx, saved, formed>>
    /\ UNCHANGED <<files0, complete, fnVars>>

WriteHead ==
    /\ pc = "head"
    /\ WriteOk(HeadChunk)
    /\ pc' = IF current = <<>> THEN "tail" ELSE "entries"
    /\ UNCHANGED <<up_to, rend, n, previous, current, pidx, widx, saved, formed>>
    /\ UNCHANGED <<files0, complete, fnVars>>

WriteEntry ==
    /\ pc = "entries"
    /\ WriteOk(EntryChunk(widx, current[widx + 1]))
    /\ widx' = widx + 1
    /\ pc' = IF widx + 1 = Len(current) THEN "tail" ELSE "entries"
    /\ UNCHANGED <<up_to, rend, n, previous, current, pidx, saved, formed>>
    /\ UNCHANGED <<files0, complete, fnVars>>

WriteTail ==
    /\ pc = "tail"
    /\ WriteOk(TailChunk)
    /\ pc' = "flush"
    /\ UNCHANGED <<up_to, rend, n, previous, current, pidx, widx, saved, formed>>
    /\ UNCHANGED <<files0, complete, fnVars>>

\* writer.flush() that succeeds; save returns and the file is closed
Flush ==
    /\ pc = "flush"
    /\ files' = [files EXCEPT ![n].data = stream]
    /\ stream' = <<>>
    /\ widx' = 0
    /\ saved' = Append(saved, n)
    /\ complete' = [complete EXCEPT ![n] = FullContent(current)]
    /\ pc' = "next"
    /\ UNCHANGED <<up_to, rend, n, previous, current, pidx, formed>>
    /\ UNCHANGED <<files0, fnVars>>

\* previous = current.into_iter().map(|(polyomino, _)| polyomino).collect(), and
\* the next value of the range
NextSize ==
    /\ pc = "next"
    /\ previous' = [i \in 1 .. Len(current) |-> current[i].poly]
    /\ current' = <<>>
    /\ pidx' = 1
    /\ n' = n + 1
    /\ pc' = IF n + 1 < rend THEN "grow" ELSE "done"
    /\ UNCHANGED <<up_to, rend, files, stream, widx, saved, formed>>
    /\ UNCHANGED <<files0, complete, fnVars>>

NoResult == [poly |-> <<>>, sym |-> "unset"]

HarnessOff ==
    /\ S = <<>>
    /\ fpc = "off"
    /\ fixedOut = <<>>
    /\ freeOut = NoResult
    /\ freeRot = NoResult
    /\ freeTr = NoResult
    /\ chain = <<>>

Init ==
    /\ up_to \in Arguments
    /\ pc = "start"
    /\ rend = 0
    /\ n = 2
    /\ previous = << <<<<0, 0>>>> >>
    /\ current = <<>>
    /\ pidx = 1
    /\ files \in {[k \in FileSizes |-> NoFile], [k \in FileSizes |-> StaleFile]}
    /\ stream = <<>>
    /\ widx = 0
    /\ saved = <<>>
    /\ formed = 1
    /\ files0 = files
    /\ complete = [k \in FileSizes |-> <<>>]
    /\ HarnessOff

Next ==
    \/ Start
    \/ OverflowPanic
    \/ GrowPolyomino
    \/ SaveOpen
    \/ SaveOpenFail
    \/ WriteHead
    \/ WriteEntry
    \/ WriteTail
    \/ WriteFail
    \/ Flush
    \/ NextSize

Spec == Init /\ [][Next]_vars


(***************************************************************************)
(* The canonicalization functions on their own: canonize_fixed and         *)
(* canonize_free are applied to a shape S and to its rotate- and           *)
(* transpose-image.  S is a sequence of distinct cells: every non-empty    *)
(* set of at most MaxCells cells of the grid and a few larger shapes, in   *)
(* ascending, descending or shifted cell order, at three translations.     *)
(***************************************************************************)
Grid == (0 .. GridSide - 1) \X (0 .. GridSide - 1)

\* larger shapes: a four-cell and an eight-cell pinwheel, a seven-cell S, a
\* six-cell staircase, and the I, L, S, T and O tetrominoes
ExtraShapes ==
    { {<<1, 0>>, <<3, 1>>, <<2, 3>>, <<0, 2>>},
      {<<0, 0>>, <<1, 0>>, <<2, 0>>, <<3, 0>>},
      {<<0, 0>>, <<0, 1>>, <<0, 2>>, <<1, 0>>},
      {<<0, 0>>, <<1, 0>>, <<1, 1>>, <<2, 1>>},
      {<<0, 0>>, <<1, 0>>, <<2, 0>>, <<1, 1>>},
      {<<0, 0>>, <<0, 1>>, <<1, 0>>, <<1, 1>>},
      {<<1, 1>>, <<2, 1>>, <<1, 2>>, <<2, 2>>, <<1, 0>>, <<3, 1>>, <<2, 3>>, <<0, 2>>},
      {<<0, 0>>, <<1, 0>>, <<1, 1>>, <<1, 2>>, <<1, 3>>, <<1, 4>>, <<2, 4>>},
      {<<0, 0>>, <<0, 1>>, <<1, 1>>, <<1, 2>>, <<2, 2>>, <<2, 3>>} }

HarnessShapes ==
    {T \in SUBSET Grid : Cardinality(T) \in 1 .. MaxCells} \cup ExtraShapes

\* the cells of a set in ascending order
RECURSIVE Ascending(_)
Ascending(T) ==
    IF T = {} THEN <<>>
    ELSE LET m == CHOOSE c \in T :
                    \A d \in T : c[1] < d[1] \/ (c[1] = d[1] /\ c[2] <= d[2])
         IN  <<m>> \o Ascending(T \ {m})

Reversed(q) == [i \in DOMAIN q |-> q[Len(q) + 1 - i]]

Shifted(q) == IF q = <<>> THEN q ELSE Tail(q) \o <<Head(q)>>

Translated(q, off) == [i \in DOMAIN q |-> <<q[i][1] + off[1], q[i][2] + off[2]>>]

HarnessInputs(T) ==
    { Ascending(T),
      Translated(Reversed(Ascending(T)), <<0 - 2, 1>>),
      Translated(Shifted(Ascending(T)), <<1, 0 - 1>>) }

RotateImage(q) == [i \in DOMAIN q |-> Coord_rotate(q[i])]

TransposeImage(q) == [i \in DOMAIN q |-> Coord_transpose(q[i])]

ProgramOff ==
    /\ up_to = 0
    /\ pc = "off"
    /\ rend = 0
    /\ n = 2
    /\ previous = <<>>
    /\ current = <<>>
    /\ pidx = 1
    /\ files = [k \in FileSizes |-> NoFile]
    /\ stream = <<>>
    /\ widx = 0
    /\ saved = <<>>
    /\ formed = 1
    /\ files0 = files
    /\ complete = [k \in FileSizes |-> <<>>]

InitFn ==
    /\ \E T \in HarnessShapes : S \in HarnessInputs(T)
    /\ fpc = "fixed"
    /\ fixedOut = <<>>
    /\ freeOut = NoResult
    /\ freeRot = NoResult
    /\ freeTr = NoResult
    /\ chain = <<>>
    /\ ProgramOff

CallCanonizeFixed ==
    /\ fpc = "fixed"
    /\ fixedOut' = canonize_fixed(S)
    /\ fpc' = "free"
    /\ UNCHANGED <<S, freeOut, freeRot, freeTr, chain>>
    /\ UNCHANGED progVars

CallCanonizeFree ==
    /\ fpc = "free"
    /\ chain' = Images(S)
    /\ freeOut' = canonize_free(S)
    /\ fpc' = "rotated"
    /\ UNCHANGED <<S, fixedOut, freeRot, freeTr>>
    /\ UNCHANGED progVars

CallOnRotateImage ==
    /\ fpc = "rotated"
    /\ freeRot' = canonize_free(RotateImage(S))
    /\ fpc' = "transposed"
    /\ UNCHANGED <<S, fixedOut, freeOut, freeTr, chain>>
    /\ UNCHANGED progVars

CallOnTransposeImage ==
    /\ fpc = "transposed"
    /\ freeTr' = canonize_free(TransposeImage(S))
    /\ fpc' = "done"
    /\ UNCHANGED <<S, fixedOut, freeOut, freeRot, chain>>
    /\ UNCHANGED progVars

NextFn ==
    \/ CallCanonizeFixed
    \/ CallCanonizeFree
    \/ CallOnRotateImage
    \/ CallOnTransposeImage

SpecFn == InitFn /\ [][NextFn]_vars


(***************************************************************************)
(* Geometry used to state the properties, defined without the program's    *)
(* functions: the eight symmetries of the square, translation to the       *)
(* origin, congruence and edge-connectedness of sets of cells.             *)
(***************************************************************************)
Rotations == {"id", "r90", "r180", "r270"}

DiagonalMirrors == {"diag", "anti"}

AxisMirrors == {"flipx", "flipy"}

SquareSymmetries == Rotations \cup DiagonalMirrors \cup AxisMirrors

Apply(g, c) ==
    CASE g = "id" -> c
      [] g = "r90" -> <<0 - c[2], c[1]>>
      [] g = "r180" -> <<0 - c[1], 0 - c[2]>>
      [] g = "r270" -> <<c[2], 0 - c[1]>>
      [] g = "diag" -> <<c[2], c[1]>>
      [] g = "anti" -> <<0 - c[2], 0 - c[1]>>
      [] g = "flipx" -> <<0 - c[1], c[2]>>
      [] g = "flipy" -> <<c[1], 0 - c[2]>>

ImageUnder(g, q) == [i \in DOMAIN q |-> Apply(g, q[i])]

CellsOf(q) == {q[i] : i \in DOMAIN q}

ToOrigin(T) ==
    LET mx == MinOf({c[1] : c \in T})
        my == MinOf({c[2] : c \in T})
    IN  {<<c[1] - mx, c[2] - my>> : c \in T}

Congruent(a, b) ==
    \E g \in SquareSymmetries : ToOrigin({Apply(g, c) : c \in CellsOf(a)}) = ToOrigin(CellsOf(b))

Adjacent(c, d) ==
    \/ c[1] = d[1] /\ (c[2] = d[2] + 1 \/ d[2] = c[2] + 1)
    \/ c[2] = d[2] /\ (c[1] = d[1] + 1 \/ d[1] = c[1] + 1)

RECURSIVE ReachedFrom(_, _)
ReachedFrom(seen, T) ==
    LET more == {d \in T \ seen : \E c \in seen : Adjacent(c, d)}
    IN  IF more = {} THEN seen ELSE ReachedFrom(seen \cup more, T)

EdgeConnected(T) == T # {} /\ ReachedFrom({CHOOSE c \in T : TRUE}, T) = T

Distinct(q) == \A i, j \in DOMAIN q : i # j => q[i] # q[j]

StrictlyAscending(q) ==
    \A i \in 1 .. Len(q) - 1 :
        q[i][1] < q[i + 1][1] \/ (q[i][1] = q[i + 1][1] /\ q[i][2] < q[i + 1][2])

AtOrigin(q) ==
    /\ \A i \in DOMAIN q : q[i][1] >= 0 /\ q[i][2] >= 0
    /\ \E i \in DOMAIN q : q[i][1] = 0
    /\ \E i \in DOMAIN q : q[i][2] = 0

Range(q) == {q[i] : i \in DOMAIN q}

Keys(map) == {map[i].poly : i \in DOMAIN map}

\* the positions of main at which generation n is complete
CompletePcs == {"open", "head", "entries", "tail", "flush", "next", "panicked"}

\* the positions of main inside save
SavePcs == {"head", "entries", "tail", "flush"}


(***************************************************************************)
(* Properties of canonize_fixed and canonize_free (specification SpecFn)   *)
(***************************************************************************)
\* C4: canonize_fixed(S) has minimum x = 0 and minimum y = 0 among its cells,
\* and its cells are in strictly ascending lexicographic order (x, then y),
\* without duplicates.
C4_FixedIsNormalized ==
    fpc \in {"free", "rotated", "transposed", "done"} =>
        /\ MinOf({fixedOut[i][1] : i \in DOMAIN fixedOut}) = 0
        /\ MinOf({fixedOut[i][2] : i \in DOMAIN fixedOut}) = 0
        /\ StrictlyAscending(fixedOut)
        /\ Distinct(fixedOut)

\* canonize_fixed has been applied to a shape of three or more cells that was
\* neither at the origin nor in ascending order
C4_Witness ==
    /\ fpc = "free"
    /\ Len(S) >= 3
    /\ ~StrictlyAscending(S)
    /\ ~AtOrigin(S)
    /\ fixedOut # S

\* C3: canonize_free(S) returns the same pair (free canonical form, symmetry
\* class) as canonize_free of the image of S with every cell rotated,
\* (x, y) -> (-y, x), and as canonize_free of the image of S with every cell
\* transposed, (x, y) -> (y, x).
C3_CongruenceInvariance ==
    /\ fpc \in {"transposed", "done"} => freeRot = freeOut
    /\ fpc = "done" => freeTr = freeOut

\* all three calls were made on a shape without any symmetry, given away from
\* the origin and out of order, whose images differ as fixed shapes
C3_Witness ==
    /\ fpc = "done"
    /\ freeOut.sym = "None"
    /\ ~AtOrigin(S)
    /\ ~StrictlyAscending(S)
    /\ canonize_fixed(RotateImage(S)) # canonize_fixed(S)
    /\ canonize_fixed(TransposeImage(S)) # canonize_fixed(S)

\* the stabilizer of a shape: the symmetries g with
\* canonize_fixed(g(S)) = canonize_fixed(S)
Stabilizer(q) ==
    {g \in SquareSymmetries : canonize_fixed(ImageUnder(g, q)) = canonize_fixed(q)}

\* the class that names a stabilizer
ClassOfStabilizer(st) ==
    IF st = SquareSymmetries THEN "All"
    ELSE IF st = Rotations THEN "Rotation4Fold"
    ELSE IF st = {"id", "r180"} \cup DiagonalMirrors THEN "Rotation2FoldMirror45"
    ELSE IF st = {"id", "r180"} \cup AxisMirrors THEN "Rotation2FoldMirror90"
    ELSE IF \E m \in DiagonalMirrors : st = {"id", m} THEN "Mirror45"
    ELSE IF \E m \in AxisMirrors : st = {"id", m} THEN "Mirror90"
    ELSE IF st = {"id", "r180"} THEN "Rotation2Fold"
    ELSE IF st = {"id"} THEN "None"
    ELSE "no class"

\* C7: the symmetry class returned by canonize_free(S) names exactly the
\* stabilizer of S: All iff all 8 symmetries, Rotation4Fold iff exactly the 4
\* rotations, Rotation2FoldMirror45 iff identity, half turn and both diagonal
\* reflections, Rotation2FoldMirror90 iff identity, half turn and both axis
\* reflections, Mirror45 iff identity and one diagonal reflection, Mirror90 iff
\* identity and one axis reflection, Rotation2Fold iff identity and half turn,
\* None iff identity only.
C7_ClassIsStabilizer ==
    fpc \in {"rotated", "transposed", "done"} =>
        freeOut.sym = ClassOfStabilizer(Stabilizer(S))

\* canonize_free has classified a shape whose stabilizer is the four rotations
C7_Witness ==
    /\ fpc = "rotated"
    /\ freeOut.sym = "Rotation4Fold"
    /\ Stabilizer(S) = Rotations

\* the cells of q, transposed first when tr holds, then rotated k times, with
\* no translation in between
RECURSIVE Direct(_, _, _)
Direct(q, tr, k) ==
    IF k > 0 THEN RotateImage(Direct(q, tr, k - 1))
    ELSE IF tr THEN TransposeImage(q)
    ELSE q

\* C9: the eight images canonize_free computes by chaining rotate on the
\* already fixed-canonicalized intermediate results (c0, c90, c180, c270, t0,
\* t90, t180, t270) equal, one by one, canonize_fixed of the original cells of S
\* transformed directly by identity, rotate, rotate twice, rotate three times,
\* transpose, transpose then rotate, then rotate twice, then rotate three times.
C9_ChainedImagesAreDirect ==
    fpc \in {"rotated", "transposed", "done"} =>
        chain = << canonize_fixed(Direct(S, FALSE, 0)), canonize_fixed(Direct(S, FALSE, 1)),
                   canonize_fixed(Direct(S, FALSE, 2)), canonize_fixed(Direct(S, FALSE, 3)),
                   canonize_fixed(Direct(S, TRUE, 0)), canonize_fixed(Direct(S, TRUE, 1)),
                   canonize_fixed(Direct(S, TRUE, 2)), canonize_fixed(Direct(S, TRUE, 3)) >>

\* the images were computed for a shape away from the origin whose eight images
\* are eight different fixed shapes
C9_Witness ==
    /\ fpc = "rotated"
    /\ ~AtOrigin(S)
    /\ Len(S) >= 4
    /\ Cardinality(Range(chain)) = 8


(***************************************************************************)
(* Properties of the growth loop and of save (specification Spec)          *)
(***************************************************************************)
\* the standard count of free polyominoes of 1 .. 6 cells
KnownCounts == <<1, 1, 2, 5, 12, 35>>

\* C1: from the single-cell shape at the origin, the number of distinct keys of
\* the generation of size n (the initial one-shape generation being n = 1) is
\* 1, 1, 2, 5, 12, 35 for n = 1 .. 6.
C1_KnownCounts ==
    /\ pc = "start" => Cardinality(Range(previous)) = KnownCounts[1]
    /\ (pc \in CompletePcs /\ n <= Len(KnownCounts)) =>
           Cardinality(Keys(current)) = KnownCounts[n]

\* the generation of size 6 is complete
C1_Witness == pc = "open" /\ n = Len(KnownCounts) /\ Len(current) = 35

\* the files the run has created or changed
Touched == {k \in FileSizes : files[k] # files0[k]}

\* the content of a file of one entry
OneEntry(key, value) == <<"{", "\n\t\"" \o key \o "\": \"" \o value \o "\"", "\n}\n">>

\* C2 as stated: for up_to = 2 the program writes exactly one file, 2.json,
\* with exactly one entry, whose key is "0,0,1,0" (or the other representative
\* of the domino, "0,0,0,1") and whose value is "All".
C2_AsStated ==
    (pc = "done" /\ up_to = 2) =>
        /\ Touched = {2}
        /\ files[2].exists
        /\ files[2].data \in {OneEntry("0,0,1,0", "All"), OneEntry("0,0,0,1", "All")}

\* C2, amended: for up_to = 2 the program writes exactly one file, 2.json,
\* with exactly one entry, whose key is "0,0,0,1" and whose value is
\* "Rotation2FoldMirror90".
C2_DominoFile ==
    (pc = "done" /\ up_to = 2) =>
        /\ Touched = {2}
        /\ files[2].exists
        /\ files[2].data = OneEntry("0,0,0,1", "Rotation2FoldMirror90")

\* the run for up_to = 2 has ended, in a directory that held a stale 2.json
C2_Witness == pc = "done" /\ up_to = 2 /\ saved = <<2>> /\ files0[2] = StaleFile

\* a <= b for usize values in the representation of UsizeMax
UsizeLeq(a, b) == IF (a < 0) = (b < 0) THEN a <= b ELSE b < 0

\* C5: a run without I/O failure writes exactly one file per size n in
\* 2..=up_to, in strictly increasing order of n, each file n.json only after
\* generation n is fully computed and before any candidate of size n + 1 is
\* formed; no file is written for size 1 (up_to of 0 or 1 writes nothing), and
\* the run stops after writing up_to.json.
C5_OneFilePerSize ==
    pc # "panicked" =>
        /\ \A i \in DOMAIN saved : saved[i] = i + 1
        /\ \A k \in Touched : 2 <= k /\ UsizeLeq(k, up_to) /\ k <= formed
        /\ \A k \in Touched : k \in Range(saved) \/ (k = n /\ pc \in SavePcs)
        /\ pc \in SavePcs => formed = n /\ pidx = Len(previous) + 1
        /\ \A k \in 2 .. formed - 1 : k \in Range(saved)
        /\ \A k \in Range(saved) : files[k] = [exists |-> TRUE, data |-> complete[k]]
        /\ pc \in {"done", "overflow"} =>
               \A k \in FileSizes : (2 <= k /\ UsizeLeq(k, up_to)) => k \in Range(saved)

\* what C5 states, for the arguments whose successor is representable
C5_RepresentableArguments == up_to # UsizeMax => C5_OneFilePerSize

\* C6 as stated: if opening, writing or flushing the file for size n fails,
\* every file for a size m with 2 <= m < n is completely written and unchanged,
\* n.json is at most a truncated prefix of its full content, and no file for a
\* size greater than n is created or modified.
C6_AsStated ==
    pc = "panicked" =>
        /\ \A m \in 2 .. n - 1 :
               m \in Range(saved) /\ files[m] = [exists |-> TRUE, data |-> complete[m]]
        /\ IsPrefix(files[n].data, FullContent(current))
        /\ \A k \in FileSizes : k > n => files[k] = files0[k]

\* C6, amended: as stated, except that n.json is either as it was before the
\* run (opening it failed) or at most a truncated prefix of its full content.
C6_AbortLeavesPrefix ==
    pc = "panicked" =>
        /\ \A m \in 2 .. n - 1 :
               m \in Range(saved) /\ files[m] = [exists |-> TRUE, data |-> complete[m]]
        /\ \/ files[n] = files0[n]
           \/ files[n].exists /\ IsPrefix(files[n].data, FullContent(current))
        /\ \A k \in FileSizes : k > n => files[k] = files0[k]

\* a write for size 4 failed with part of the content in the file, in a
\* directory that held stale files
C6_Witness ==
    /\ pc = "panicked"
    /\ n = 4
    /\ files0[4] = StaleFile
    /\ Len(files[4].data) = 3
    /\ files[4].data # FullContent(current)


\* the subsets of k elements of 0 .. m - 1 whose elements are all >= lo
RECURSIVE KSubsets(_, _, _)
KSubsets(lo, m, k) ==
    IF k = 0 THEN {{}}
    ELSE UNION { {T \cup {x} : T \in KSubsets(x + 1, m, k - 1)} : x \in lo .. m - k }

\* the cells <<x, y>> with x, y >= 0 and x + y < k
Corner(k) == {c \in (0 .. k - 1) \X (0 .. k - 1) : c[1] + c[2] < k}

\* the cells of Corner(k) in ascending order
CornerSeq(k) == Ascending(Corner(k))

\* every edge-connected set of exactly k cells, up to translation.  Translated
\* to minimum x = 0 and minimum y = 0, a connected set that holds a cell
\* <<x, y>> spans x + 1 columns and y + 1 rows at least, which takes
\* x + y + 1 cells: all its cells lie in Corner(k).
ConnectedShapes(k) ==
    LET cells == CornerSeq(k)
    IN  {T \in {{cells[x + 1] : x \in X} : X \in KSubsets(0, Len(cells), k)} :
            EdgeConnected(T)}

\* the free canonical forms of the connected shapes, by size
FreeForms == [k \in 1 .. MaxShapeN |-> {canonize_free(Ascending(T)).poly : T \in ConnectedShapes(k)}]

\* C8: for every size n from 2 up to MaxShapeN, the key set of generation n
\* equals { free canonical form of T : T an edge-connected set of exactly n
\* cells }, and no two distinct keys are congruent under translation, rotation
\* or reflection.
C8_CompleteAndDeduplicated ==
    (pc = "open" /\ n <= MaxShapeN) =>
        /\ Keys(current) = FreeForms[n]
        /\ \A i, j \in DOMAIN current :
               i # j => ~Congruent(current[i].poly, current[j].poly)

\* the generation of size MaxShapeN is complete and holds several shapes
C8_Witness == pc = "open" /\ n = MaxShapeN /\ Len(current) >= 5

\* the positions of main at which previous or current was just assigned
GrowthPcs == {"start", "overflow", "grow", "open", "done"}

\* a shape of a generation of size k: k distinct cells, edge-connected, at the
\* origin with no negative coordinate
ShapeOfSize(q, k) ==
    /\ Len(q) = k
    /\ Distinct(q)
    /\ EdgeConnected(CellsOf(q))
    /\ AtOrigin(q)

GenerationsWellFormed ==
    /\ \A i \in DOMAIN current :
           /\ ShapeOfSize(current[i].poly, n)
           /\ canonize_free(current[i].poly) = current[i]
    /\ \A i \in DOMAIN previous :
           /\ ShapeOfSize(previous[i], n - 1)
           /\ canonize_free(previous[i]).poly = previous[i]

\* C10: in every state of the growth loop, every shape of the current
\* generation of size n has exactly n pairwise distinct cells, is
\* edge-connected, has all coordinates >= 0 with minimum x = 0 and minimum
\* y = 0, and canonize_free returns it unchanged with the class stored for it;
\* the same holds of the shapes of `previous`, of size n - 1, but for the class.
\* The steps that leave a position of GrowthPcs behind change neither map, so
\* the state predicate is evaluated at the positions of GrowthPcs.
C10_GenerationsWellFormed ==
    /\ [](pc \in GrowthPcs => GenerationsWellFormed)
    /\ [][pc' \notin GrowthPcs => UNCHANGED <<n, previous, current>>]_vars

\* the generation of size 5 is being built and holds a shape of each of three
\* classes already
C10_Witness ==
    /\ pc = "grow"
    /\ n = 5
    /\ Len(previous) = 5
    /\ {"None", "Mirror45", "Mirror90"} \subseteq {current[i].sym : i \in DOMAIN current}

====
